---- MODULE Spec2Model ----
(***************************************************************************)
(* Model of the RegistryAccord CLI: the resilient HTTP client (fetchJSON), *)
(* the session store, and the commands that compose them (session:nonce,   *)
(* session:issue, remote post:create with media upload, remote             *)
(* identity:create and the read-only listing commands).                    *)
(*                                                                         *)
(* One CLI invocation runs at a time (commands are one-shot processes).    *)
(* Every await of the code is a step of the model: one fetch attempt of    *)
(* fetchJSON, the raw PUT of the media bytes, and the continuation of the  *)
(* command after a fetchJSON call has returned or thrown.                  *)
(***************************************************************************)
EXTENDS Integers, Sequences, FiniteSets, TLC

(***************************************************************************)
(* Bounds of the model.                                                    *)
(***************************************************************************)
\* largest explicit opts.retries a direct caller of fetchJSON passes
MaxRetries == 2
\* number of distinct media files (byte strings) a user may attach
MaxFiles == 1
\* number of distinct JWTs the identity service may hand out
MaxJwt == 1
\* number of distinct keypairs generateKeyPair may produce
MaxKeys == 2
\* largest number of posts the local content store holds
MaxPosts == 2
MaxTime == 3

(***************************************************************************)
(* Program constants.                                                      *)
(***************************************************************************)
DefaultRetries == 3
DefaultBackoffMs == 1000

Auds == {"cdv", "gateway"}
Files == 1..MaxFiles
Jwts == 1..MaxJwt

(***************************************************************************)
(* Values.                                                                 *)
(***************************************************************************)
\* A hex digest string: d is the digest value, up tells whether the hex
\* digits are written in upper case (two strings are equal iff both agree).
NoDigest == [d |-> 0, up |-> FALSE]
\* digests a server may return: those of the files and one of other content
Digests == [d : 1..(MaxFiles + 1), up : BOOLEAN]

\* crypto.createHash('sha256').update(buf).digest('hex'): lower-case hex,
\* distinct files have distinct digests.
SHA256(file) == [d |-> file, up |-> FALSE]

\* The string comparison of uploadMedia: finalizeOut.cid !== sha256.
ChecksumMismatchSkipped(serverCid, sha) == FALSE
ChecksumMismatch(serverCid, sha) == serverCid # sha

\* JSON bodies of 2xx responses; fields a given endpoint does not use are 0/"".
\* Instants of the wall clock, and the exp string of an issuance response:
\* <<"t", n>> is a timestamp Date parses to the instant n, <<"invalid">> a
\* string Date does not parse.
Times == 1..MaxTime
IssuedExp == <<"t", 2>>
NoBody == [dg |-> NoDigest, jwt |-> 0, aud |-> "", items |-> <<>>, nextCursor |-> <<>>, exp |-> <<>>]
\* endpoints answering { items, nextCursor? }
ListingEndpoints == {"listRecords", "feedFollowing", "feedAuthor", "search"}
\* pages a listing endpoint may answer with
Pages == {<<>>, <<"item1">>}
NextCursors == {<<>>, <<"c2">>}
Bodies(ep) ==
    CASE ep = "finalize" -> {[NoBody EXCEPT !.dg = g] : g \in Digests}
      [] ep = "issue"    -> {[NoBody EXCEPT !.jwt = j, !.aud = a, !.exp = IssuedExp] : j \in Jwts, a \in Auds}
      [] ep \in ListingEndpoints ->
             {[NoBody EXCEPT !.items = it, !.nextCursor = nc] : it \in Pages, nc \in NextCursors}
      [] OTHER           -> {NoBody}

\* Statuses of non-ok responses the services may answer with.
ErrStatuses == {304, 400, 401, 403, 404, 429, 500, 503}

\* Outcome of one underlying fetch(): an HTTP response (status, whether the
\* body parses as JSON, the parsed body), an abort by the per-attempt
\* timeout, or a low-level connection failure.
HttpOutcome(status, json, body) == [k |-> "http", status |-> status, json |-> json, body |-> body]
TimeoutOutcome == [k |-> "timeout", status |-> 0, json |-> FALSE, body |-> NoBody]
ConnOutcome == [k |-> "conn", status |-> 0, json |-> FALSE, body |-> NoBody]
NoOutcome == [k |-> "none", status |-> 0, json |-> FALSE, body |-> NoBody]

Outcomes(ep) ==
    {HttpOutcome(200, TRUE, b) : b \in Bodies(ep)}
      \cup {HttpOutcome(200, FALSE, NoBody)}
      \cup {HttpOutcome(s, FALSE, NoBody) : s \in ErrStatuses}
      \cup {TimeoutOutcome, ConnOutcome}

Is503(o) == o.k = "http" /\ o.status = 503

\* res.ok
OkExcludes200(status) == status > 200 /\ status <= 299
Ok(status) == status >= 200 /\ status <= 299

(***************************************************************************)
(* lib/errors.ts                                                           *)
(***************************************************************************)
NoErr == [cls |-> "none", code |-> "", exitCode |-> 0, cid |-> <<>>, status |-> 0]
AuthError(code, cid) == [cls |-> "AuthError", code |-> code, exitCode |-> 3, cid |-> cid, status |-> 0]
NetworkError(code, cid) == [cls |-> "NetworkError", code |-> code, exitCode |-> 4, cid |-> cid, status |-> 0]
ServerError(code, cid) == [cls |-> "ServerError", code |-> code, exitCode |-> 5, cid |-> cid, status |-> 0]
FileSystemError == [cls |-> "FileSystemError", code |-> "FILE_SYSTEM_ERROR", exitCode |-> 2, cid |-> <<>>, status |-> 0]
\* a plain Error (no exitCode, no correlationId)
PlainError == [cls |-> "Error", code |-> "", exitCode |-> 0, cid |-> <<>>, status |-> 0]

(***************************************************************************)
(* lib/http.ts : fetchJSON                                                 *)
(***************************************************************************)
\* opts.retries ?? 3 ; an option is <<>> when undefined, <<v>> when given
RetriesOf(optRetries) == IF optRetries = <<>> THEN DefaultRetries ELSE optRetries[1]

\* headers = { 'X-Correlation-ID': correlationId, ...(opts.headers || {}) }
\* optXcid is the caller's own X-Correlation-ID entry of opts.headers.
HeaderXcid(cid, optXcid) == IF optXcid = <<>> THEN <<cid>> ELSE optXcid

\* The error built from a non-ok response (status property attached).
ClassifyOffByOne(status, cid) ==
    LET e == IF status = 401 \/ status = 403 THEN AuthError("HTTP_AUTH_ERROR", <<cid>>)
             ELSE IF status > 500 THEN ServerError("HTTP_SERVER_ERROR", <<cid>>)
             ELSE IF status >= 400 THEN NetworkError("HTTP_CLIENT_ERROR", <<cid>>)
             ELSE NetworkError("HTTP_UNKNOWN_ERROR", <<cid>>)
    IN [e EXCEPT !.status = status]
Classify(status, cid) ==
    LET e == IF status = 401 \/ status = 403 THEN AuthError("HTTP_AUTH_ERROR", <<cid>>)
             ELSE IF status >= 500 THEN ServerError("HTTP_SERVER_ERROR", <<cid>>)
             ELSE IF status >= 400 THEN NetworkError("HTTP_CLIENT_ERROR", <<cid>>)
             ELSE NetworkError("HTTP_UNKNOWN_ERROR", <<cid>>)
    IN [e EXCEPT !.status = status]

\* (res.status === 429 || res.status === 503) && attempt < retries
RetryStatus(status, attempt, retries) == (status = 429 \/ status = 503) /\ attempt < retries

\* catch block, custom-error branch:
\* attempt < retries && (err instanceof ServerError || err instanceof NetworkError)
RetryCustomAnyClass(cls, attempt, retries) == attempt < retries
RetryCustom(cls, attempt, retries) == attempt < retries /\ cls \in {"ServerError", "NetworkError"}

\* backoffMs * Math.pow(2, attempt)
BackoffNoGrowth(backoffMs, attempt) == backoffMs
Backoff(backoffMs, attempt) == backoffMs * (2 ^ attempt)

\* One iteration of the retry loop for the attempt's outcome o:
\* next = "retry" (sleep, continue), "return" (body) or "throw" (err).
AttemptResult(o, attempt, retries, cid) ==
    LET retry == [next |-> "retry", err |-> NoErr, body |-> NoBody]
        throw(e) == [next |-> "throw", err |-> e, body |-> NoBody]
    IN
    IF o.k = "http" /\ ~Ok(o.status) THEN
        \* the error is thrown inside the try block, so the catch block of the
        \* same iteration sees it as one of the custom errors
        LET e == Classify(o.status, cid) IN
        IF RetryStatus(o.status, attempt, retries) THEN retry
        ELSE IF RetryCustom(e.cls, attempt, retries) THEN retry
        ELSE throw(e)
    ELSE IF o.k = "http" /\ o.json THEN
        [next |-> "return", err |-> NoErr, body |-> o.body]
    ELSE IF o.k = "timeout" THEN
        IF attempt < retries THEN retry ELSE throw(NetworkError("HTTP_TIMEOUT", <<cid>>))
    ELSE
        \* connection failure, or res.json() rejecting on a malformed body:
        \* wrapped in NetworkError (the wrapped error has no status)
        IF attempt < retries THEN retry ELSE throw(NetworkError("HTTP_NETWORK_ERROR", <<cid>>))

(***************************************************************************)
(* lib/session.ts : the session file ~/.registryaccord/session.json        *)
(***************************************************************************)
\* Content of the session file by the JSON value it holds: "absent" (no
\* file), "invalid" (not JSON), "null", "scalar" (number, string, boolean),
\* "array", or "object" (a mapping audience -> Session, held in map).
EmptyMap == [a \in {} |-> 0]
SessionFileKinds == {"absent", "invalid", "null", "scalar", "array", "object"}
FileOf(kind) == [kind |-> kind, map |-> EmptyMap]

\* The Session session:issue builds from the issuance response.
SessionOf(out) == [jwt |-> out.jwt, expiry |-> out.exp, aud |-> out.aud, did |-> "sub"]

\* The DID a user passes as --authorDid.  It is typed by the user and is not
\* taken from the session file, whose sessions carry the subject "sub" the
\* identity service answered with.
Dids == {"did:author"}

\* storeSession(session): read-modify-write of the whole file; every
\* exception is rethrown as FileSystemError.  The module is an ES module
\* (strict mode): assigning a property on null or on a primitive throws.
\* A property set on an array is not serialised by JSON.stringify.
storeSessionDropsOthers(file, session) ==
    LET put(m) == [a \in {session.aud} |-> session]
    IN
    CASE file.kind = "absent" -> [ok |-> TRUE, file |-> [kind |-> "object", map |-> put(EmptyMap)]]
      [] file.kind = "object" -> [ok |-> TRUE, file |-> [kind |-> "object", map |-> put(file.map)]]
      [] file.kind = "array"  -> [ok |-> TRUE, file |-> file]
      [] OTHER                -> [ok |-> FALSE, file |-> file]
storeSession(file, session) ==
    LET put(m) == [a \in (DOMAIN m) \cup {session.aud} |-> IF a = session.aud THEN session ELSE m[a]]
    IN
    CASE file.kind = "absent" -> [ok |-> TRUE, file |-> [kind |-> "object", map |-> put(EmptyMap)]]
      [] file.kind = "object" -> [ok |-> TRUE, file |-> [kind |-> "object", map |-> put(file.map)]]
      [] file.kind = "array"  -> [ok |-> TRUE, file |-> file]
      [] OTHER                -> [ok |-> FALSE, file |-> file]

\* storeSession when mkdirSync, chmodSync, readFileSync or writeFileSync
\* throws (permission denied, I/O error): the file keeps its content and the
\* exception is rethrown as FileSystemError.
storeSessionIOFailure(file) == [ok |-> FALSE, file |-> file]

\* getCurrentSession(): null, or the session under the first key of the
\* stored mapping.  Keys come in insertion order, which the mapping of the
\* model does not record: the result is one of the stored sessions.
getCurrentSession(file) ==
    IF file.kind = "object" THEN {file.map[a] : a \in DOMAIN file.map} ELSE {}

\* new Date(expiry).getTime(): <<t>> an instant, <<>> is NaN
getTime(expiry) == IF expiry[1] = "t" THEN <<expiry[2]>> ELSE <<>>

\* new Date(session.expiry).getTime() > Date.now()
isActiveAtExpiry(expiry, now) == getTime(expiry) # <<>> /\ getTime(expiry)[1] >= now
isActive(expiry, now) == getTime(expiry) # <<>> /\ getTime(expiry)[1] > now

\* What getCurrentSession() returns at the instant now: <<>> is null, <<r>>
\* the record { did, expiry, active }.  A file holding JSON that is not a
\* mapping: Object.keys throws on null; a number, a boolean, "" and [] have
\* no keys; a non-empty string or array has the key "0", under which a value
\* without did and expiry is found (or null, on which the read throws).
getCurrentSessionAt(file, now) ==
    CASE file.kind = "object" /\ DOMAIN file.map # {} ->
             {<<[did |-> s.did, expiry |-> s.expiry, active |-> isActive(s.expiry, now)]>> :
                  s \in getCurrentSession(file)}
      [] file.kind \in {"scalar", "array"} ->
             {<<>>, <<[did |-> "undefined", expiry |-> <<"undefined">>,
                       active |-> isActive(<<"undefined">>, now)]>>}
      [] OTHER -> {<<>>}

\* getSession(aud): <<>> is null, <<s>> a session.  Corruption is swallowed.
getSession(file, aud) ==
    IF file.kind = "object" /\ aud \in DOMAIN file.map THEN <<file.map[aud]>> ELSE <<>>

(***************************************************************************)
(* File modes.  A mode is written as its octal digits (700 is 0o700); 0    *)
(* stands for a path that does not exist.  The user owns the directory and *)
(* the files, so chmod succeeds, and the umask is the usual 022.           *)
(***************************************************************************)
DirModes == {700, 755}
FileModes == {600, 644}

\* fs.chmodSync(path, mode), fs.chmod(path, mode)
chmod(old, mode) == mode
\* fs.mkdirSync(dir, { mode }) of a directory that does not exist
mkdirSync(mode) == mode
\* fs.ensureDir(dir): creates a missing directory with the default mode
ensureDir(old) == IF old = 0 THEN 755 ELSE old
\* fs.writeFileSync(path, data, { mode }): the mode is the creation mode of
\* open(2); a file that already exists keeps the mode it has
writeFileSync(old, mode) == IF old = 0 THEN mode ELSE old
\* fs.writeJson(path, obj): a new file gets the default mode
writeJson(old) == IF old = 0 THEN 644 ELSE old

\* the modes a completed storeSession leaves
storeSessionPerm(p) ==
    [p EXCEPT !.dir = IF @ = 0 THEN mkdirSync(700) ELSE chmod(@, 700),
              !.session = writeFileSync(@, 600)]
\* the modes a completed storeKeyPair leaves
storeKeyPairPerm(p) ==
    [p EXCEPT !.dir = IF @ = 0 THEN mkdirSync(700) ELSE chmod(@, 700),
              !.key = writeFileSync(@, 600)]
\* ensureKeyDir()
ensureKeyDir(p) == [p EXCEPT !.dir = chmod(ensureDir(@), 700)]
\* the modes a completed saveKey leaves
saveKeyPerm(p) == [ensureKeyDir(p) EXCEPT !.key = chmod(writeJson(@), 600)]
\* the modes on a machine that was set up with the modes the commands ask for
SecurePerm(sf, kf) ==
    [dir |-> 700, session |-> IF sf.kind = "absent" THEN 0 ELSE 600, key |-> IF kf.exists THEN 600 ELSE 0]

(***************************************************************************)
(* services/crypto.ts (signatures as terms: message signed under a key)    *)
(***************************************************************************)
signMessage(message, secretKey) == [m |-> message, sk |-> secretKey]

\* verifyMessage(message, signature, publicKey): the signature was made
\* for this message with the secret half of the keypair publicKey belongs to
verifyMessageIgnoresKey(message, signature, publicKey) == signature.m = message
verifyMessage(message, signature, publicKey) == signature.m = message /\ publicKey = <<"pk", signature.sk[2]>>

(***************************************************************************)
(* State                                                                   *)
(***************************************************************************)
VARIABLES
    pc,          \* "idle", "fetching", "returned", "put", "done"
    cmd,         \* the running invocation: name and flags
    loc,         \* locals of the running command
    http,        \* the fetchJSON call in progress (or the last one); last is the
                 \* outcome of its latest attempt, only503 whether every attempt
                 \* that failed so far was answered 503
    ret,         \* how the last fetchJSON call ended
    wire,        \* requests sent by this invocation, in order
    exit,        \* process exit code, -1 while running or not applicable
    msg,         \* what the reported error message names
    nCalls,      \* fetchJSON calls made by this invocation
    sessionFile, \* ~/.registryaccord/session.json
    keyFile,     \* ~/.registryaccord/key.json
    cdv,         \* ./cdv.json, the local content store (CDV stub)
    perm,        \* modes of ~/.registryaccord, session.json and key.json
    procs        \* concurrent invocations: where each is in its read-modify-write

vars == <<pc, cmd, loc, http, ret, wire, exit, msg, nCalls, sessionFile, keyFile, cdv, perm, procs>>

\* Invocations that run at the same time as operating-system processes of
\* their own, each between the read and the write of a store file.
Procs == {1, 2}
NoProc == [pc |-> "idle", op |-> "none", session |-> <<>>, text |-> "", read |-> <<>>, ok |-> FALSE]
NoProcs == [p \in Procs |-> NoProc]

Nonces == {"n1", "n2"}
Keys == 1..MaxKeys
\* an X-Correlation-ID a caller of fetchJSON put into opts.headers itself
CallerXcid == <<"caller", 0>>
\* generateCorrelationId(): 'cli-' + time + random; the n-th call of an
\* invocation gets the n-th fresh identifier
generateCorrelationId(n) == <<"cli", n>>

SimpleCmds == {"session:nonce", "post:list", "feed:following", "feed:author", "search", "profile:get"}
\* the commands with a --cursor flag
ListingCmds == {"post:list", "feed:following", "feed:author", "search"}
\* values of --cursor: not given, or a cursor an earlier page named
Cursors == {<<>>, <<"c1">>}
EndpointOf(name) ==
    CASE name = "session:nonce"  -> "nonce"
      [] name = "post:list"      -> "listRecords"
      [] name = "feed:following" -> "feedFollowing"
      [] name = "feed:author"    -> "feedAuthor"
      [] name = "search"         -> "search"
      [] name = "profile:get"    -> "profile"
      [] OTHER                   -> "api"

NoCmd == [name |-> "none", valid |-> TRUE, media |-> <<>>, aud |-> "", nonce |-> "", authorDid |-> "",
          force |-> FALSE, text |-> "", cursor |-> <<>>, now |-> 0]
NoLoc == [sha |-> NoDigest, putStatus |-> 0, fin |-> NoDigest, mediaRef |-> <<>>, storeErr |-> NoErr,
          annotated |-> <<>>, out |-> <<>>, session |-> <<>>]
NoReq == [ep |-> "", xcid |-> <<>>, sig |-> <<>>, media |-> <<>>, author |-> <<>>, cursor |-> <<>>,
          pk |-> <<>>]
NoHttp == [req |-> NoReq, retries |-> 0, attempt |-> 0, cid |-> <<"cli", 0>>, sent |-> 0,
           last |-> NoOutcome, only503 |-> TRUE, delay |-> 0]
NoRet == [kind |-> "none", body |-> NoBody, err |-> NoErr]
NoMsg == [cid |-> <<>>, digests |-> {}]
NoKey == [exists |-> FALSE, k |-> 0,
          json |-> [did |-> <<>>, secretKeyBase64 |-> <<>>, privateKeyBase64 |-> <<>>, publicKeyBase64 |-> <<>>]]
\* ./cdv.json does not exist
NoCdv == [kind |-> "absent", posts |-> <<>>]

Init ==
    /\ pc = "idle"
    /\ cmd = NoCmd
    /\ loc = NoLoc
    /\ http = NoHttp
    /\ ret = NoRet
    /\ wire = <<>>
    /\ exit = -1
    /\ msg = NoMsg
    /\ nCalls = 0
    /\ procs = NoProcs
    /\ sessionFile \in {FileOf(k) : k \in SessionFileKinds}
    /\ keyFile = NoKey
    /\ cdv = NoCdv
    /\ perm = SecurePerm(sessionFile, keyFile)

\* A new invocation starts in a process of its own.
CanStart == pc = "idle"

\* The process of a finished command ends: nothing of it but the files is
\* left for the next invocation.
ProcessExit ==
    /\ pc = "done"
    /\ pc' = "idle"
    /\ cmd' = NoCmd
    /\ loc' = NoLoc
    /\ http' = NoHttp
    /\ ret' = NoRet
    /\ wire' = <<>>
    /\ exit' = -1
    /\ msg' = NoMsg
    /\ nCalls' = 0
    /\ UNCHANGED <<sessionFile, keyFile, cdv, perm>>
    /\ UNCHANGED procs

\* this.error(message, {exit}) : the command ends with that exit code
Fail(code, m) ==
    /\ pc' = "done"
    /\ exit' = code
    /\ msg' = m

\* fetchJSON(url, opts) is entered: a fresh correlation id, the headers and
\* attempt 0 of the loop.  sig, media, author and pk describe the request
\* body, cursor the cursor parameter of the URL.
BeginFetch(calls, ep, optRetries, optXcid, sig, media, author, cursor, pk) ==
    LET cid == generateCorrelationId(calls + 1) IN
    /\ nCalls' = calls + 1
    /\ http' = [req |-> [ep |-> ep, xcid |-> HeaderXcid(cid, optXcid), sig |-> sig, media |-> media,
                         author |-> author, cursor |-> cursor, pk |-> pk],
                retries |-> RetriesOf(optRetries), attempt |-> 0, cid |-> cid, sent |-> 0,
                last |-> NoOutcome, only503 |-> TRUE, delay |-> 0]
    /\ ret' = NoRet
    /\ pc' = "fetching"

\* One iteration of the retry loop: the request goes out, the outcome o comes
\* back, and the loop sleeps and continues, returns, or throws.
FetchAttempt ==
    /\ pc = "fetching"
    /\ \E o \in Outcomes(http.req.ep) :
        LET r == AttemptResult(o, http.attempt, http.retries, http.cid) IN
        /\ wire' = Append(wire, http.req)
        /\ IF r.next = "retry"
           THEN /\ http' = [http EXCEPT !.attempt = @ + 1, !.sent = @ + 1, !.last = o,
                                      !.only503 = @ /\ Is503(o),
                                      !.delay = Backoff(DefaultBackoffMs, http.attempt)]
                /\ UNCHANGED <<pc, ret>>
           ELSE /\ http' = [http EXCEPT !.sent = @ + 1, !.last = o,
                                      !.only503 = @ /\ (Is503(o) \/ r.next = "return")]
                /\ pc' = "returned"
                /\ ret' = [kind |-> IF r.next = "return" THEN "ok" ELSE "err",
                           body |-> r.body, err |-> r.err]
    /\ UNCHANGED <<cmd, loc, exit, msg, nCalls, sessionFile, keyFile, cdv, perm>>
    /\ UNCHANGED procs

(***************************************************************************)
(* A direct caller of the exported fetchJSON with its own options.         *)
(***************************************************************************)
CallFetchJSON ==
    /\ CanStart
    /\ \E r \in {<<>>} \cup {<<n>> : n \in 0..MaxRetries}, h \in {<<>>, <<CallerXcid>>} :
        BeginFetch(0, "api", r, h, <<>>, <<>>, <<>>, <<>>, <<>>)
    /\ cmd' = [NoCmd EXCEPT !.name = "fetchJSON"]
    /\ loc' = NoLoc
    /\ wire' = <<>>
    /\ exit' = -1
    /\ msg' = NoMsg
    /\ UNCHANGED <<sessionFile, keyFile, cdv, perm>>
    /\ UNCHANGED procs

ResumeDirect ==
    /\ pc = "returned"
    /\ cmd.name = "fetchJSON"
    /\ pc' = "done"
    /\ UNCHANGED <<cmd, loc, http, ret, wire, exit, msg, nCalls, sessionFile, keyFile, cdv, perm>>
    /\ UNCHANGED procs

(***************************************************************************)
(* session:nonce, post:list, feed:following, feed:author, search,          *)
(* profile:get : validate, one fetchJSON call, print, or this.error.       *)
(***************************************************************************)
\* the exit code and message of the command's catch block
SimpleCatchExit(name) == 4
SimpleCatchMsg(name, err) == [cid |-> IF name = "session:nonce" THEN err.cid ELSE <<>>, digests |-> {}]

StartSimple ==
    /\ CanStart
    /\ \E name \in SimpleCmds, valid \in BOOLEAN, cursor \in Cursors :
        /\ name \notin ListingCmds => cursor = <<>>
        /\ cmd' = [NoCmd EXCEPT !.name = name, !.valid = valid, !.cursor = cursor]
        /\ IF valid
           THEN /\ BeginFetch(0, EndpointOf(name), <<>>, <<>>, <<>>, <<>>, <<>>, cursor, <<>>)
                /\ exit' = -1
                /\ msg' = NoMsg
           ELSE /\ Fail(2, NoMsg)
                /\ nCalls' = 0
                /\ http' = NoHttp
                /\ ret' = NoRet
    /\ loc' = NoLoc
    /\ wire' = <<>>
    /\ UNCHANGED <<sessionFile, keyFile, cdv, perm>>
    /\ UNCHANGED procs

\* the lines a listing command prints for the response out: one per item of
\* out.items, then the next cursor when out.nextCursor is there
ListingOutputDropsItems(out) ==
    [i \in 1..0 |-> <<"item", out.items[i]>>]
        \o (IF out.nextCursor # <<>> THEN <<<<"Next cursor", out.nextCursor[1]>>>> ELSE <<>>)
ListingOutput(out) ==
    [i \in 1..Len(out.items) |-> <<"item", out.items[i]>>]
        \o (IF out.nextCursor # <<>> THEN <<<<"Next cursor", out.nextCursor[1]>>>> ELSE <<>>)

ResumeSimple ==
    /\ pc = "returned"
    /\ cmd.name \in SimpleCmds
    /\ IF ret.kind = "ok"
       THEN /\ pc' = "done"
            /\ exit' = 0
            /\ msg' = NoMsg
            /\ loc' = IF cmd.name \in ListingCmds THEN [loc EXCEPT !.out = ListingOutput(ret.body)] ELSE loc
       ELSE /\ Fail(SimpleCatchExit(cmd.name), SimpleCatchMsg(cmd.name, ret.err))
            /\ loc' = loc
    /\ UNCHANGED <<cmd, http, ret, wire, nCalls, sessionFile, keyFile, cdv, perm>>
    /\ UNCHANGED procs

(***************************************************************************)
(* whoami : prints the DID of getCurrentSession(), or 'No active session'  *)
(* loc.session holds what getCurrentSession() returned at the instant now. *)
(***************************************************************************)
Whoami ==
    /\ CanStart
    /\ \E now \in Times :
        /\ cmd' = [NoCmd EXCEPT !.name = "whoami", !.now = now]
        /\ \E session \in getCurrentSessionAt(sessionFile, now) :
            loc' = [NoLoc EXCEPT !.out = IF session = <<>> THEN <<>> ELSE <<session[1].did>>,
                                 !.session = session]
    /\ pc' = "done"
    /\ exit' = 0
    /\ msg' = NoMsg
    /\ http' = NoHttp
    /\ ret' = NoRet
    /\ wire' = <<>>
    /\ nCalls' = 0
    /\ UNCHANGED <<sessionFile, keyFile, cdv, perm>>
    /\ UNCHANGED procs

(***************************************************************************)
(* session:issue                                                           *)
(***************************************************************************)
\* The request body is { did, aud, nonce }: the key file is not read and
\* nothing is signed (the signing step is a TODO in the command).
StartSessionIssue ==
    /\ CanStart
    /\ \E aud \in Auds, nonce \in Nonces, valid \in BOOLEAN :
        /\ cmd' = [NoCmd EXCEPT !.name = "session:issue", !.valid = valid, !.aud = aud, !.nonce = nonce]
        /\ IF valid
           THEN /\ BeginFetch(0, "issue", <<>>, <<>>, <<>>, <<>>, <<>>, <<>>, <<>>)
                /\ exit' = -1
                /\ msg' = NoMsg
           ELSE /\ Fail(2, NoMsg)
                /\ nCalls' = 0
                /\ http' = NoHttp
                /\ ret' = NoRet
    /\ loc' = NoLoc
    /\ wire' = <<>>
    /\ UNCHANGED <<sessionFile, keyFile, cdv, perm>>
    /\ UNCHANGED procs

\* exit code of the inner catch (around storeSession): err.exitCode || 2
StoreCatchExit(err) == IF err.exitCode # 0 THEN err.exitCode ELSE 2
\* exit code of the outer catch
IssueCatchExit == 4

\* After the call: storeSession inside the outer try block.  this.error of
\* the inner catch throws inside the outer try, so the outer catch reports
\* the failure with its own exit code, whatever StoreCatchExit asked for.
\* io tells whether the file system lets storeSession read and write.
ResumeIssue ==
    /\ pc = "returned"
    /\ cmd.name = "session:issue"
    /\ IF ret.kind = "ok"
       THEN \E io \in BOOLEAN :
            LET r == IF io THEN storeSession(sessionFile, SessionOf(ret.body))
                     ELSE storeSessionIOFailure(sessionFile)
            IN
            IF r.ok
            THEN /\ sessionFile' = r.file
                 /\ perm' = storeSessionPerm(perm)
                 /\ pc' = "done"
                 /\ exit' = 0
                 /\ msg' = NoMsg
                 /\ loc' = loc
            ELSE /\ Fail(IssueCatchExit, NoMsg)
                 /\ loc' = [loc EXCEPT !.storeErr = FileSystemError]
                 \* the directory step may have run before the failure
                 /\ \E d \in {perm.dir, storeSessionPerm(perm).dir} :
                        perm' = [perm EXCEPT !.dir = IF io THEN storeSessionPerm(perm).dir ELSE d]
                 /\ UNCHANGED sessionFile
       ELSE /\ Fail(IssueCatchExit, [cid |-> ret.err.cid, digests |-> {}])
            /\ UNCHANGED <<sessionFile, loc, perm>>
    /\ UNCHANGED <<cmd, http, ret, wire, nCalls, keyFile, cdv>>
    /\ UNCHANGED procs

(***************************************************************************)
(* post:create (remote variant) with optional --media                      *)
(***************************************************************************)
\* exit: err.exitCode || 4
MediaCatchExit(err) == IF err.exitCode # 0 THEN err.exitCode ELSE 4

StartPostCreate ==
    /\ CanStart
    /\ \E media \in {<<>>} \cup {<<f>> : f \in Files}, author \in Dids, valid \in BOOLEAN :
        /\ cmd' = [NoCmd EXCEPT !.name = "post:create", !.valid = valid, !.media = media,
                                !.authorDid = author]
        /\ IF ~valid
           THEN /\ Fail(2, NoMsg)
                /\ nCalls' = 0
                /\ http' = NoHttp
                /\ ret' = NoRet
                /\ loc' = NoLoc
           ELSE /\ exit' = -1
                /\ msg' = NoMsg
                /\ IF media # <<>>
                   THEN /\ loc' = [NoLoc EXCEPT !.sha = SHA256(media[1])]
                        /\ BeginFetch(0, "uploadInit", <<>>, <<>>, <<>>, <<>>, <<>>, <<>>, <<>>)
                   ELSE /\ loc' = NoLoc
                        /\ BeginFetch(0, "record", <<>>, <<>>, <<>>, <<>>, <<author>>, <<>>, <<>>)
    /\ wire' = <<>>
    /\ UNCHANGED <<sessionFile, keyFile, cdv, perm>>
    /\ UNCHANGED procs

\* uploadMedia rethrows every failure as a plain Error; run reports it.
ResumeUploadInit ==
    /\ pc = "returned"
    /\ cmd.name = "post:create"
    /\ http.req.ep = "uploadInit"
    /\ IF ret.kind = "ok"
       THEN /\ pc' = "put"
            /\ UNCHANGED <<exit, msg>>
       ELSE Fail(MediaCatchExit(PlainError), NoMsg)
    /\ UNCHANGED <<cmd, loc, http, ret, wire, nCalls, sessionFile, keyFile, cdv, perm>>
    /\ UNCHANGED procs

\* await fetch(initOut.uploadUrl, { method: 'PUT', body, headers: Content-Type }):
\* the response is not inspected; only a rejected fetch throws.
PutStatuses == {200, 403, 503}
PutOutcomes == {HttpOutcome(s, FALSE, NoBody) : s \in PutStatuses} \cup {ConnOutcome}

PutBytes ==
    /\ pc = "put"
    /\ \E o \in PutOutcomes :
        /\ wire' = Append(wire, [NoReq EXCEPT !.ep = "put"])
        /\ loc' = [loc EXCEPT !.putStatus = IF o.k = "http" THEN o.status ELSE -1]
        /\ IF o.k = "http"
           THEN \* body: { checksum: sha256 }
                /\ BeginFetch(nCalls, "finalize", <<>>, <<>>, <<>>, <<loc.sha>>, <<>>, <<>>, <<>>)
                /\ UNCHANGED <<exit, msg>>
           ELSE /\ Fail(MediaCatchExit(PlainError), NoMsg)
                /\ UNCHANGED <<http, ret, nCalls>>
    /\ UNCHANGED <<cmd, sessionFile, keyFile, cdv, perm>>
    /\ UNCHANGED procs

\* return { cid: finalizeOut.cid, mimeType: finalizeOut.mimeType }
MediaReferenceUpperCase(cid) == <<[cid EXCEPT !.up = TRUE]>>
MediaReference(cid) == <<cid>>

ResumeFinalize ==
    /\ pc = "returned"
    /\ cmd.name = "post:create"
    /\ http.req.ep = "finalize"
    /\ IF ret.kind = "ok"
       THEN /\ loc' = [loc EXCEPT !.fin = ret.body.dg,
                                  !.mediaRef = IF ChecksumMismatch(ret.body.dg, loc.sha)
                                               THEN <<>> ELSE MediaReference(ret.body.dg)]
            /\ IF ChecksumMismatch(ret.body.dg, loc.sha)
               THEN /\ Fail(MediaCatchExit(PlainError), [cid |-> <<>>, digests |-> {loc.sha, ret.body.dg}])
                    /\ UNCHANGED <<http, ret, nCalls>>
               ELSE /\ BeginFetch(nCalls, "record", <<>>, <<>>, <<>>, MediaReference(ret.body.dg),
                                   <<cmd.authorDid>>, <<>>, <<>>)
                    /\ UNCHANGED <<exit, msg>>
       ELSE /\ Fail(MediaCatchExit(PlainError), NoMsg)
            /\ UNCHANGED <<loc, http, ret, nCalls>>
    /\ UNCHANGED <<cmd, wire, sessionFile, keyFile, cdv, perm>>
    /\ UNCHANGED procs

ResumeRecord ==
    /\ pc = "returned"
    /\ cmd.name = "post:create"
    /\ http.req.ep = "record"
    /\ IF ret.kind = "ok"
       THEN /\ pc' = "done"
            /\ exit' = 0
            /\ msg' = NoMsg
       ELSE Fail(5, [cid |-> ret.err.cid, digests |-> {}])
    /\ UNCHANGED <<cmd, loc, http, ret, wire, nCalls, sessionFile, keyFile, cdv, perm>>
    /\ UNCHANGED procs

(***************************************************************************)
(* identity:create (remote variant)                                        *)
(***************************************************************************)
\* the exit code computed by the catch block from err.status / err.exitCode
IdentityCatchExit(err) ==
    IF err.status # 0 THEN
        IF err.status = 400 THEN 2
        ELSE IF err.status = 401 \/ err.status = 403 THEN 3
        ELSE IF err.status >= 500 THEN 5
        ELSE 4
    ELSE IF err.cls = "AbortError" THEN 4
    ELSE IF err.exitCode # 0 THEN err.exitCode
    ELSE 5

\* storeKeyPair(keyPair): writes { did, publicKey, privateKey }
storeKeyPair(k) ==
    [exists |-> TRUE, k |-> k,
     json |-> [did |-> <<<<"did:plc", k>>>>, secretKeyBase64 |-> <<>>, privateKeyBase64 |-> <<>>,
               publicKeyBase64 |-> <<>>]]

\* generateKeyPair, storeKeyPair (the key file is written before the
\* registration request), then the request.
StartIdentityCreateStoresFirst ==
    /\ CanStart
    /\ \E k \in Keys, valid \in BOOLEAN :
        /\ cmd' = [NoCmd EXCEPT !.name = "identity:create", !.valid = valid]
        /\ keyFile' = storeKeyPair(k)
        /\ perm' = storeKeyPairPerm(perm)
        /\ IF valid
           THEN /\ BeginFetch(0, "identityCreate", <<>>, <<>>, <<>>, <<>>, <<>>, <<>>, <<>>)
                /\ exit' = -1
                /\ msg' = NoMsg
           ELSE /\ Fail(2, NoMsg)
                /\ nCalls' = 0
                /\ http' = NoHttp
                /\ ret' = NoRet
    /\ loc' = NoLoc
    /\ wire' = <<>>
    /\ UNCHANGED <<sessionFile, cdv>>
    /\ UNCHANGED procs
StartIdentityCreate ==
    /\ CanStart
    /\ \E k \in Keys, valid \in BOOLEAN :
        /\ cmd' = [NoCmd EXCEPT !.name = "identity:create", !.valid = valid]
        /\ IF valid
           THEN /\ keyFile' = storeKeyPair(k)
                /\ perm' = storeKeyPairPerm(perm)
                /\ BeginFetch(0, "identityCreate", <<>>, <<>>, <<>>, <<>>, <<>>, <<>>, <<>>)
                /\ exit' = -1
                /\ msg' = NoMsg
           ELSE /\ Fail(2, NoMsg)
                /\ nCalls' = 0
                /\ http' = NoHttp
                /\ ret' = NoRet
                /\ UNCHANGED <<keyFile, perm>>
    /\ loc' = NoLoc
    /\ wire' = <<>>
    /\ UNCHANGED <<sessionFile, cdv>>
    /\ UNCHANGED procs

ResumeIdentity ==
    /\ pc = "returned"
    /\ cmd.name = "identity:create"
    /\ IF ret.kind = "ok"
       THEN /\ pc' = "done"
            /\ exit' = 0
            /\ msg' = NoMsg
       ELSE Fail(IdentityCatchExit(ret.err), [cid |-> ret.err.cid, digests |-> {}])
    /\ UNCHANGED <<cmd, loc, http, ret, wire, nCalls, sessionFile, keyFile, cdv, perm>>
    /\ UNCHANGED procs

(***************************************************************************)
(* services/storage.ts and the commands working on the local stores:       *)
(* identity:create (local variant, with --force) and post:create (local    *)
(* variant, signing with the stored key and appending to ./cdv.json).      *)
(***************************************************************************)
\* texts a user may post
Texts == {"a", "b"}

\* KEY_PATH and CDV_PATH of config/paths.ts
KEY_PATH == "~/.registryaccord/key.json"
CDV_PATH == "./cdv.json"

\* the public half and the DID of the keypair whose secret half is k
SecretOf(k) == <<"sk", k>>
PublicOf(k) == <<"pk", k>>
DidOf(k) == <<"did:ra:ed25519", k>>

\* generateKeypair(): the keypair drawn is named by its secret key k
generateKeypair(k) == [did |-> DidOf(k), secretKeyBase64 |-> SecretOf(k), publicKeyBase64 |-> PublicOf(k)]

\* a JSON object read from the key file: a property is <<>> when the object
\* does not have it, <<v>> when it holds the string v
NoJson == [did |-> <<>>, secretKeyBase64 |-> <<>>, privateKeyBase64 |-> <<>>, publicKeyBase64 |-> <<>>]

\* the key files a machine may hold for the keypair k: the current format,
\* the legacy format, a legacy file without its public key, the file that
\* storeKeyPair of commands/identity/create.ts writes ({did, publicKey,
\* privateKey}) and a JSON value without any property
KeyFormats == {"current", "legacy", "legacyNoPublic", "foreign", "empty"}
KeyJson(fmt, k) ==
    CASE fmt = "current" -> [NoJson EXCEPT !.did = <<DidOf(k)>>, !.secretKeyBase64 = <<SecretOf(k)>>,
                                           !.publicKeyBase64 = <<PublicOf(k)>>]
      [] fmt = "legacy"  -> [NoJson EXCEPT !.did = <<DidOf(k)>>, !.privateKeyBase64 = <<SecretOf(k)>>,
                                           !.publicKeyBase64 = <<PublicOf(k)>>]
      [] fmt = "legacyNoPublic" -> [NoJson EXCEPT !.did = <<DidOf(k)>>, !.privateKeyBase64 = <<SecretOf(k)>>]
      [] fmt = "foreign" -> storeKeyPair(k).json
      [] OTHER           -> NoJson
KeyFileOf(fmt, k) == [exists |-> TRUE, k |-> k, json |-> KeyJson(fmt, k)]

\* typeof v.did === 'string' && typeof v.publicKeyBase64 === 'string' &&
\* typeof v.secretKeyBase64 === 'string'
isStoredKeyLax(v) == v.did # <<>> /\ v.secretKeyBase64 # <<>>
isStoredKey(v) == v.did # <<>> /\ v.publicKeyBase64 # <<>> /\ v.secretKeyBase64 # <<>>

\* the StoredKey a validated JSON object is
\* a property the object does not have reads as undefined
Undefined == <<"undefined">>
Prop(f) == IF f = <<>> THEN Undefined ELSE f[1]
StoredKeyOf(v) == [did |-> Prop(v.did), secretKeyBase64 |-> Prop(v.secretKeyBase64),
                   publicKeyBase64 |-> Prop(v.publicKeyBase64)]
NoLoadErr == [text |-> "", path |-> ""]
InvalidKeyFile == [ok |-> FALSE, key |-> <<>>, err |-> [text |-> "Invalid key file format at", path |-> KEY_PATH]]

\* loadKey(): key = <<>> is null, key = <<k>> a StoredKey; ~ok is the throw
loadKeyNoLegacy(file) ==
    IF ~file.exists THEN [ok |-> TRUE, key |-> <<>>, err |-> NoLoadErr]
    ELSE LET raw == file.json IN
         IF ~isStoredKey(raw) THEN InvalidKeyFile
         ELSE [ok |-> TRUE, key |-> <<StoredKeyOf(raw)>>, err |-> NoLoadErr]
loadKey(file) ==
    IF ~file.exists THEN [ok |-> TRUE, key |-> <<>>, err |-> NoLoadErr]
    ELSE LET raw == file.json IN
         IF raw.privateKeyBase64 # <<>> /\ raw.secretKeyBase64 = <<>>
         THEN LET mapped == [NoJson EXCEPT !.did = raw.did, !.secretKeyBase64 = raw.privateKeyBase64,
                                           !.publicKeyBase64 = raw.publicKeyBase64] IN
              IF ~isStoredKey(mapped) THEN InvalidKeyFile
              ELSE [ok |-> TRUE, key |-> <<StoredKeyOf(mapped)>>, err |-> NoLoadErr]
         ELSE IF ~isStoredKey(raw) THEN InvalidKeyFile
              ELSE [ok |-> TRUE, key |-> <<StoredKeyOf(raw)>>, err |-> NoLoadErr]

\* saveKey(key): the key file is (over)written with the JSON of key
saveKey(key) ==
    [exists |-> TRUE, k |-> key.secretKeyBase64[2],
     json |-> [NoJson EXCEPT !.did = <<key.did>>, !.secretKeyBase64 = <<key.secretKeyBase64>>,
                             !.publicKeyBase64 = <<key.publicKeyBase64>>]]

\* loadPosts(): [] when the file does not exist; throws when the file does
\* not hold an array of post records
loadPostsLenient(file) ==
    CASE file.kind = "posts"  -> [ok |-> TRUE, posts |-> file.posts, err |-> NoLoadErr]
      [] OTHER                -> [ok |-> TRUE, posts |-> <<>>, err |-> NoLoadErr]
loadPosts(file) ==
    CASE file.kind = "absent" -> [ok |-> TRUE, posts |-> <<>>, err |-> NoLoadErr]
      [] file.kind = "posts"  -> [ok |-> TRUE, posts |-> file.posts, err |-> NoLoadErr]
      [] file.kind = "badEntry" ->
             [ok |-> FALSE, posts |-> <<>>, err |-> [text |-> "Invalid post entry in", path |-> CDV_PATH]]
      [] OTHER                ->
             [ok |-> FALSE, posts |-> <<>>, err |-> [text |-> "Invalid posts file format at", path |-> CDV_PATH]]

\* savePosts(posts)
savePostsKeepsNewest(posts) == [kind |-> "posts", posts |-> <<posts[Len(posts)]>>]
savePosts(posts) == [kind |-> "posts", posts |-> posts]

\* the PostRecord post:create builds (id and createdAt are fresh values that
\* nothing reads; the position in the store stands for them)
PostRecordSignsOtherText(text, key) ==
    [text |-> text, signatureBase64 |-> signMessage("", key.secretKeyBase64),
     publicKeyBase64 |-> key.publicKeyBase64, did |-> key.did]
PostRecord(text, key) ==
    [text |-> text, signatureBase64 |-> signMessage(text, key.secretKeyBase64),
     publicKeyBase64 |-> key.publicKeyBase64, did |-> key.did]

\* this.error('No identity found...', { exit: 1 })
NoIdentityExit == 1
\* exit code oclif gives a command whose run() rejects with a plain Error
UncaughtExit == 1

\* a command that makes no HTTP call ends at once, having printed out
EndLocal(name, code, out) ==
    /\ pc' = "done"
    /\ exit' = code
    /\ msg' = NoMsg
    /\ loc' = [NoLoc EXCEPT !.out = out]
    /\ http' = NoHttp
    /\ ret' = NoRet
    /\ wire' = <<>>
    /\ nCalls' = 0

LocalIdentityCreate ==
    /\ CanStart
    /\ \E force \in BOOLEAN, k \in Keys :
        /\ cmd' = [NoCmd EXCEPT !.name = "identity:create(local)", !.force = force]
        /\ LET existing == loadKey(keyFile)
               kp == generateKeypair(k) IN
           IF ~existing.ok
           THEN /\ EndLocal("identity:create(local)", UncaughtExit, <<>>)
                /\ UNCHANGED <<keyFile, perm>>
           ELSE IF existing.key # <<>> /\ ~force
           THEN /\ EndLocal("identity:create(local)", 2, <<>>)
                /\ UNCHANGED <<keyFile, perm>>
           ELSE /\ perm' = saveKeyPerm(perm)
                /\ keyFile' = saveKey([did |-> kp.did, secretKeyBase64 |-> kp.secretKeyBase64,
                                       publicKeyBase64 |-> kp.publicKeyBase64])
                /\ EndLocal("identity:create(local)", 0, <<kp.did>>)
    /\ UNCHANGED <<sessionFile, cdv>>
    /\ UNCHANGED procs

LocalPostCreate ==
    /\ CanStart
    /\ \E text \in Texts :
        /\ cmd' = [NoCmd EXCEPT !.name = "post:create(local)", !.text = text]
        /\ LET key == loadKey(keyFile) IN
           IF ~key.ok
           THEN /\ EndLocal("post:create(local)", UncaughtExit, <<>>)
                /\ UNCHANGED cdv
           ELSE IF key.key = <<>>
           THEN /\ EndLocal("post:create(local)", NoIdentityExit, <<>>)
                /\ UNCHANGED cdv
           ELSE LET r == loadPosts(cdv) IN
                IF ~r.ok
                THEN /\ EndLocal("post:create(local)", UncaughtExit, <<>>)
                     /\ UNCHANGED cdv
                ELSE /\ Len(r.posts) < MaxPosts
                     /\ cdv' = savePosts(Append(r.posts, PostRecord(text, key.key[1])))
                     /\ EndLocal("post:create(local)", 0, <<>>)
    /\ UNCHANGED <<sessionFile, keyFile, perm>>
    /\ UNCHANGED procs

\* post:list (local variant): every stored post with the verdict of
\* verifyMessage under the public key stored with the post
LocalPostList ==
    /\ CanStart
    /\ cmd' = [NoCmd EXCEPT !.name = "post:list(local)"]
    /\ LET r == loadPosts(cdv) IN
       IF ~r.ok
       THEN EndLocal("post:list(local)", UncaughtExit, <<>>)
       ELSE /\ pc' = "done"
            /\ exit' = 0
            /\ msg' = NoMsg
            /\ loc' = [NoLoc EXCEPT !.annotated =
                           [i \in 1..Len(r.posts) |->
                               [post |-> r.posts[i],
                                valid |-> verifyMessage(r.posts[i].text, r.posts[i].signatureBase64,
                                                        r.posts[i].publicKeyBase64)]]]
            /\ http' = NoHttp
            /\ ret' = NoRet
            /\ wire' = <<>>
            /\ nCalls' = 0
    /\ UNCHANGED <<sessionFile, keyFile, cdv, perm>>
    /\ UNCHANGED procs

Next ==
    \/ CallFetchJSON
    \/ FetchAttempt
    \/ ResumeDirect
    \/ StartSimple
    \/ ResumeSimple
    \/ Whoami
    \/ StartSessionIssue
    \/ ResumeIssue
    \/ StartPostCreate
    \/ ResumeUploadInit
    \/ PutBytes
    \/ ResumeFinalize
    \/ ResumeRecord
    \/ StartIdentityCreate
    \/ ResumeIdentity
    \/ ProcessExit

Spec == Init /\ [][Next]_vars

(***************************************************************************)
(* identity:create (the variant that generates an Ed25519 keypair, saves   *)
(* it with saveKey and registers the public key with the identity          *)
(* service).  loc.out holds the lines printed: the [debug] lines of        *)
(* --verbose, then the result.                                             *)
(***************************************************************************)
\* body of the registration request: { publicKey: keypair.publicKeyBase64 }
RegisterBodySendsSecretKey(kp) == <<kp.secretKeyBase64>>
RegisterBody(kp) == <<kp.publicKeyBase64>>

\* keypair.publicKeyBase64.substring(0, 32) + '...'
Fingerprint(publicKey) == <<"fingerprint", publicKey[2]>>

RegisterIdentity ==
    /\ CanStart
    /\ \E k \in Keys, valid \in BOOLEAN, verbose \in BOOLEAN :
        /\ cmd' = [NoCmd EXCEPT !.name = "identity:create(register)", !.valid = valid]
        /\ IF valid
           THEN LET kp == generateKeypair(k) IN
                /\ keyFile' = saveKey([did |-> kp.did, secretKeyBase64 |-> kp.secretKeyBase64,
                                       publicKeyBase64 |-> kp.publicKeyBase64])
                /\ perm' = saveKeyPerm(perm)
                /\ BeginFetch(0, "identityCreate", <<>>, <<>>, <<>>, <<>>, <<>>, <<>>, RegisterBody(kp))
                /\ loc' = [NoLoc EXCEPT !.out = IF verbose THEN <<kp.did>> \o RegisterBody(kp) ELSE <<>>]
                /\ exit' = -1
                /\ msg' = NoMsg
           ELSE /\ Fail(2, NoMsg)
                /\ nCalls' = 0
                /\ http' = NoHttp
                /\ ret' = NoRet
                /\ loc' = NoLoc
                /\ UNCHANGED <<keyFile, perm>>
    /\ wire' = <<>>
    /\ UNCHANGED <<sessionFile, cdv>>
    /\ UNCHANGED procs

ResumeRegister ==
    /\ pc = "returned"
    /\ cmd.name = "identity:create(register)"
    /\ IF ret.kind = "ok"
       THEN /\ pc' = "done"
            /\ exit' = 0
            /\ msg' = NoMsg
            /\ loc' = [loc EXCEPT !.out = @ \o <<Fingerprint(loadKey(keyFile).key[1].publicKeyBase64)>>]
       ELSE /\ Fail(IdentityCatchExit(ret.err), [cid |-> ret.err.cid, digests |-> {}])
            /\ loc' = loc
    /\ UNCHANGED <<cmd, http, ret, wire, nCalls, sessionFile, keyFile, cdv, perm>>
    /\ UNCHANGED procs

(***************************************************************************)
(* The commands of the local stores, on a machine whose ./cdv.json is      *)
(* absent or does not hold an array of posts.                              *)
(***************************************************************************)
LocalInit ==
    /\ pc = "idle"
    /\ cmd = NoCmd
    /\ loc = NoLoc
    /\ http = NoHttp
    /\ ret = NoRet
    /\ wire = <<>>
    /\ exit = -1
    /\ msg = NoMsg
    /\ nCalls = 0
    /\ procs = NoProcs
    /\ sessionFile = FileOf("absent")
    /\ keyFile \in {NoKey} \cup {KeyFileOf(fmt, k) : fmt \in KeyFormats, k \in Keys}
    /\ cdv \in {NoCdv} \cup {[kind |-> kind, posts |-> <<>>] : kind \in {"posts", "malformed", "badEntry"}}
    /\ perm = SecurePerm(sessionFile, keyFile)

LocalNext ==
    \/ LocalIdentityCreate
    \/ LocalPostCreate
    \/ LocalPostList
    \/ RegisterIdentity
    \/ FetchAttempt
    \/ ResumeRegister
    \/ ProcessExit

LocalSpec == LocalInit /\ [][LocalNext]_vars

(***************************************************************************)
(* The commands that write under ~/.registryaccord, on a machine whose     *)
(* directory and files may have been created with other modes.             *)
(***************************************************************************)
ModeInit ==
    /\ pc = "idle"
    /\ cmd = NoCmd
    /\ loc = NoLoc
    /\ http = NoHttp
    /\ ret = NoRet
    /\ wire = <<>>
    /\ exit = -1
    /\ msg = NoMsg
    /\ nCalls = 0
    /\ procs = NoProcs
    /\ sessionFile \in {FileOf("absent"), FileOf("object")}
    /\ keyFile \in {NoKey, KeyFileOf("current", 1)}
    /\ cdv = NoCdv
    /\ perm \in {p \in [dir : {0} \cup DirModes, session : {0} \cup FileModes, key : {0} \cup FileModes] :
                     /\ (p.session = 0) <=> (sessionFile.kind = "absent")
                     /\ (p.key = 0) <=> ~keyFile.exists
                     /\ (p.dir = 0) => (p.session = 0 /\ p.key = 0)}

ModeNext ==
    \/ StartSessionIssue
    \/ FetchAttempt
    \/ ResumeIssue
    \/ LocalIdentityCreate
    \/ ProcessExit

ModeSpec == ModeInit /\ [][ModeNext]_vars

(***************************************************************************)
(* fetchJSON against a server that may stop sending in the middle of a     *)
(* response.  fetch() resolves when the response headers have arrived, and *)
(* the next statement clears the timer of the attempt: the read of the     *)
(* body (res.text(), res.json()) that follows waits with no timer armed.   *)
(***************************************************************************)
\* The headers of the response arrive, the timer is cleared, and the body
\* never completes: the await of the body read does not return.
FetchAttemptStalls ==
    /\ pc = "fetching"
    /\ wire' = Append(wire, http.req)
    /\ http' = [http EXCEPT !.sent = @ + 1]
    /\ pc' = "reading"
    /\ UNCHANGED <<cmd, loc, ret, exit, msg, nCalls, sessionFile, keyFile, cdv, perm>>
    /\ UNCHANGED procs

FetchLiveNext ==
    \/ CallFetchJSON
    \/ FetchAttempt
    \/ FetchAttemptStalls
    \/ ResumeDirect
    \/ ProcessExit

\* The event loop runs every continuation that is ready, and a fetch() that
\* is pending resolves, rejects or is aborted by the timer of its attempt.
FetchLiveSpec == Init /\ [][FetchLiveNext]_vars /\ WF_vars(FetchLiveNext)

(***************************************************************************)
(* Two invocations at the same time.  storeSession (the tail of            *)
(* session:issue) and post:create read the whole store file, change the    *)
(* value in memory and write the whole file back; nothing is locked, so    *)
(* the read and the write of one process are separate steps between which  *)
(* the other process may run.  read holds the file content a process read. *)
(***************************************************************************)
\* storeSession up to the point where the file has been read and parsed
ConcStoreSessionRead ==
    /\ \E p \in Procs, aud \in Auds, j \in Jwts :
        LET session == SessionOf([NoBody EXCEPT !.jwt = j, !.aud = aud, !.exp = IssuedExp])
            r == storeSession(sessionFile, session)
        IN
        /\ procs[p].pc = "idle"
        /\ procs' = [procs EXCEPT ![p] =
                         IF r.ok
                         THEN [NoProc EXCEPT !.pc = "read", !.op = "storeSession",
                                             !.session = <<session>>, !.read = <<sessionFile>>]
                         ELSE [NoProc EXCEPT !.pc = "done", !.op = "storeSession",
                                             !.session = <<session>>]]
        /\ perm' = [perm EXCEPT !.dir = IF @ = 0 THEN mkdirSync(700) ELSE chmod(@, 700)]
    /\ UNCHANGED <<pc, cmd, loc, http, ret, wire, exit, msg, nCalls, sessionFile, keyFile, cdv>>

\* sessions[session.aud] = session on the value read, then writeFileSync
ConcStoreSessionWriteMerges ==
    /\ \E p \in Procs :
        /\ procs[p].pc = "read"
        /\ procs[p].op = "storeSession"
        /\ sessionFile' = storeSession(sessionFile, procs[p].session[1]).file
        /\ perm' = [perm EXCEPT !.session = writeFileSync(@, 600)]
        /\ procs' = [procs EXCEPT ![p].pc = "done", ![p].ok = TRUE]
    /\ UNCHANGED <<pc, cmd, loc, http, ret, wire, exit, msg, nCalls, keyFile, cdv>>
ConcStoreSessionWrite ==
    /\ \E p \in Procs :
        /\ procs[p].pc = "read"
        /\ procs[p].op = "storeSession"
        /\ sessionFile' = storeSession(procs[p].read[1], procs[p].session[1]).file
        /\ perm' = [perm EXCEPT !.session = writeFileSync(@, 600)]
        /\ procs' = [procs EXCEPT ![p].pc = "done", ![p].ok = TRUE]
    /\ UNCHANGED <<pc, cmd, loc, http, ret, wire, exit, msg, nCalls, keyFile, cdv>>

\* post:create up to the point where loadPosts has returned
ConcPostCreateRead ==
    /\ \E p \in Procs, text \in Texts :
        LET key == loadKey(keyFile)
            r == loadPosts(cdv)
        IN
        /\ procs[p].pc = "idle"
        /\ Len(r.posts) < MaxPosts
        /\ procs' = [procs EXCEPT ![p] =
                         IF key.ok /\ key.key # <<>> /\ r.ok
                         THEN [NoProc EXCEPT !.pc = "read", !.op = "post:create",
                                             !.text = text, !.read = <<cdv>>]
                         ELSE [NoProc EXCEPT !.pc = "done", !.op = "post:create", !.text = text]]
    /\ UNCHANGED <<pc, cmd, loc, http, ret, wire, exit, msg, nCalls, sessionFile, keyFile, cdv, perm>>

\* posts.push(post) on the array read, then savePosts(posts)
ConcPostCreateWrite ==
    /\ \E p \in Procs :
        /\ procs[p].pc = "read"
        /\ procs[p].op = "post:create"
        /\ cdv' = savePosts(Append(loadPosts(procs[p].read[1]).posts,
                                   PostRecord(procs[p].text, loadKey(keyFile).key[1])))
        /\ procs' = [procs EXCEPT ![p].pc = "done", ![p].ok = TRUE]
    /\ UNCHANGED <<pc, cmd, loc, http, ret, wire, exit, msg, nCalls, sessionFile, keyFile, perm>>

\* the process of a finished invocation ends
ConcProcessExit ==
    /\ \E p \in Procs :
        /\ procs[p].pc = "done"
        /\ procs' = [procs EXCEPT ![p] = NoProc]
    /\ UNCHANGED <<pc, cmd, loc, http, ret, wire, exit, msg, nCalls, sessionFile, keyFile, cdv, perm>>

ConcInit ==
    /\ pc = "idle"
    /\ cmd = NoCmd
    /\ loc = NoLoc
    /\ http = NoHttp
    /\ ret = NoRet
    /\ wire = <<>>
    /\ exit = -1
    /\ msg = NoMsg
    /\ nCalls = 0
    /\ procs = NoProcs
    /\ sessionFile \in {FileOf(k) : k \in SessionFileKinds}
    /\ keyFile \in {NoKey, KeyFileOf("current", 1)}
    /\ cdv = NoCdv
    /\ perm = SecurePerm(sessionFile, keyFile)

ConcNext ==
    \/ ConcStoreSessionRead
    \/ ConcStoreSessionWrite
    \/ ConcPostCreateRead
    \/ ConcPostCreateWrite
    \/ ConcProcessExit

ConcSpec == ConcInit /\ [][ConcNext]_vars

(***************************************************************************)
(* whoami on a machine whose session file holds sessions issued at any     *)
(* time, with any exp string the gateway answered.                         *)
(***************************************************************************)
Expiries == {<<"t", n>> : n \in Times} \cup {<<"invalid">>}
StoredSessions ==
    UNION {{[a \in D |-> [jwt |-> 1, expiry |-> f[a], aud |-> a, did |-> "sub"]] : f \in [D -> Expiries]} :
               D \in SUBSET Auds}

SessionInit ==
    /\ pc = "idle"
    /\ cmd = NoCmd
    /\ loc = NoLoc
    /\ http = NoHttp
    /\ ret = NoRet
    /\ wire = <<>>
    /\ exit = -1
    /\ msg = NoMsg
    /\ nCalls = 0
    /\ procs = NoProcs
    /\ sessionFile \in {FileOf(k) : k \in SessionFileKinds}
                        \cup {[kind |-> "object", map |-> m] : m \in StoredSessions}
    /\ keyFile = NoKey
    /\ cdv = NoCdv
    /\ perm = SecurePerm(sessionFile, keyFile)

SessionNext ==
    \/ Whoami
    \/ ProcessExit

SessionSpec == SessionInit /\ [][SessionNext]_vars

(***************************************************************************)
(* Properties                                                              *)
(***************************************************************************)
\* number of requests this invocation has sent to endpoint ep
Sent(ep) == Cardinality({i \in 1..Len(wire) : wire[i].ep = ep})
\* a non-2xx response whose status is neither 429 nor 503
OtherFailureStatus(o) == o.k = "http" /\ ~Ok(o.status) /\ o.status \notin {429, 503}
RemoteCmds == SimpleCmds \cup {"session:issue", "post:create", "identity:create"}

\* C1: a non-2xx response that is neither 429 nor 503 ends the fetchJSON call
\* at once: the call throws the error of that response and, when it was the
\* answer to the first attempt, exactly one attempt has been made.
C1_OtherStatusNeverRetried ==
    OtherFailureStatus(http.last) =>
        /\ pc # "fetching"
        /\ ret.kind = "err"
        /\ ret.err.status = http.last.status

\* C2: in post:create with --media, when the content identifier returned by
\* finalize is not the digest computed locally, the command has raised: no
\* record request was sent, the finalize request is the last request of the
\* invocation, and the error message names both digests.
C2_MismatchAbortsBeforeRecord ==
    (cmd.name = "post:create" /\ loc.fin # NoDigest /\ loc.fin.d # loc.sha.d) =>
        /\ pc = "done"
        /\ exit \notin {-1, 0}
        /\ Sent("record") = 0
        /\ wire # <<>> /\ wire[Len(wire)].ep = "finalize"
        /\ msg.digests = {loc.sha, loc.fin}

C2_Witness ==
    /\ pc = "done"
    /\ cmd.name = "post:create"
    /\ loc.fin # NoDigest
    /\ loc.fin.d # loc.sha.d
    /\ Sent("finalize") >= 1

\* C3: in post:create with --media, a failed uploadInit, a PUT that the
\* upload URL answered with a non-2xx status or that failed to connect, or a
\* failed finalize is never followed by a record request.
C3_MediaFailureAborts ==
    (/\ cmd.name = "post:create"
     /\ \/ loc.putStatus = -1
        \/ (loc.putStatus # 0 /\ ~Ok(loc.putStatus))
        \/ (http.req.ep \in {"uploadInit", "finalize"} /\ ret.kind = "err"))
    => Sent("record") = 0

\* C4: every request session:issue sends to /v1/session/issue carries a
\* signature over the nonce made with the stored secret key, and without a
\* stored identity the command fails with the authentication exit code
\* without sending a request.
C4_IssueSignsNonce ==
    /\ \A i \in 1..Len(wire) :
          wire[i].ep = "issue" =>
              keyFile.exists /\ wire[i].sig = <<signMessage(cmd.nonce, keyFile.k)>>
    /\ (cmd.name = "session:issue" /\ cmd.valid /\ ~keyFile.exists /\ pc = "done") =>
          (exit = 3 /\ wire = <<>>)

\* C5: a session file that does not hold a JSON mapping reads as "no
\* session", and a session:issue whose request succeeded ends with exit code
\* 0 and a session file holding the session just issued, whatever the file
\* held before.
C5_CorruptSessionFileNeverBlocks ==
    /\ sessionFile.kind \notin {"absent", "object"} =>
          \A a \in Auds : getSession(sessionFile, a) = <<>>
    /\ (cmd.name = "session:issue" /\ pc = "done" /\ ret.kind = "ok") =>
          /\ exit = 0
          /\ getSession(sessionFile, ret.body.aud) = <<SessionOf(ret.body)>>

\* C6 (as claimed): within one invocation the issuance POST and the
\* record-creation POST are each transmitted at most once.
C6_OneShotSentAtMostOnce ==
    Sent("issue") <= 1 /\ Sent("record") <= 1

\* C6 (amended): the issuance POST and the record-creation POST are each
\* transmitted at most retries + 1 times (4 with the commands' default
\* options), and one is transmitted again only after an attempt that failed
\* and was not answered 401/403: never after an attempt that returned a
\* parsed 2xx body or was rejected as unauthenticated.
C6_OneShotRetransmission ==
    /\ [](Sent("issue") <= DefaultRetries + 1 /\ Sent("record") <= DefaultRetries + 1)
    /\ [][\A ep \in {"issue", "record"} :
            (Sent(ep) >= 1 /\ Sent(ep)' > Sent(ep)) =>
                /\ http.last.k # "none"
                /\ ~(http.last.k = "http" /\ Ok(http.last.status) /\ http.last.json)
                /\ ~(http.last.k = "http" /\ http.last.status \in {401, 403})]_vars

C6_Witness ==
    /\ pc = "done"
    /\ cmd.name = "session:issue"
    /\ Sent("issue") = DefaultRetries + 1
    /\ http.last.k = "timeout"

\* C7: when the HTTP call of a command terminally fails, the exit code is 3
\* for an upstream 401/403, 5 for an upstream 5xx and 4 otherwise (timeout,
\* connection failure, another 4xx).
C7_ExitCodeByErrorKind ==
    (pc = "done" /\ cmd.name \in RemoteCmds /\ ret.kind = "err") =>
        exit = (IF ret.err.status \in {401, 403} THEN 3
                ELSE IF ret.err.status >= 500 THEN 5
                ELSE 4)

C9_ServerErrorCarriesHeaderId ==
    (ret.kind = "err" /\ http.only503 /\ http.sent = http.retries + 1) =>
        /\ ret.err.cls = "ServerError"
        /\ ret.err.cid = http.req.xcid
        /\ \A i \in (Len(wire) - http.sent + 1)..Len(wire) : wire[i].xcid = ret.err.cid

\* C10: every request on the wire, the PUT of the media bytes included,
\* carries an X-Correlation-ID header.
C10_EveryRequestHasCorrelationId ==
    \A i \in 1..Len(wire) : wire[i].xcid # <<>>

\* an outcome the retry policy names: 429, 503, timeout, connection failure
RetryableOutcome(o) == (o.k = "http" /\ o.status \in {429, 503}) \/ o.k \in {"timeout", "conn"}

\* C11: a fetchJSON call makes at least 1 and at most retries + 1 attempts,
\* and an attempt is followed by another one only after a 429, a 503, a
\* timeout or a connection failure.
C11_AttemptsBoundedRetryOnlyTransient ==
    /\ http.sent <= http.retries + 1
    /\ ret.kind # "none" => http.sent >= 1
    /\ (pc = "fetching" /\ http.sent >= 1) => RetryableOutcome(http.last)

\* C12: with retries >= 1, a call whose first attempt was answered 503 makes
\* a second attempt, and when that one is answered 200 with a JSON body the
\* call returns this body after exactly 2 attempts.
C12_Retry503Then200 ==
    /\ []((http.sent = 1 /\ Is503(http.last) /\ http.retries >= 1) =>
            (pc = "fetching" /\ http.attempt = 1))
    /\ [][(/\ pc = "fetching" /\ http.sent = 1 /\ Is503(http.last)
           /\ http'.sent = 2
           /\ http'.last.k = "http" /\ http'.last.status = 200 /\ http'.last.json)
          => (/\ pc' = "returned"
              /\ ret'.kind = "ok"
              /\ ret'.body = http'.last.body
              /\ wire' = Append(wire, http.req))]_vars

C12_Witness ==
    /\ cmd.name = "fetchJSON"
    /\ http.retries >= 1
    /\ ret.kind = "ok"
    /\ http.sent = 2
    /\ http.only503
    /\ Len(wire) = 2

\* C13: an identity:create invocation that finds a key file and was not
\* given --force fails with exit code 2 and leaves the key file unchanged;
\* the content of an existing key file changes only under --force.
C13_IdentityImmutableWithoutForce ==
    [][/\ (/\ CanStart /\ keyFile.exists
            /\ cmd'.name \in {"identity:create", "identity:create(local)"}
            /\ ~cmd'.force)
           => (keyFile' = keyFile /\ exit' = 2)
       /\ (keyFile.exists /\ keyFile' # keyFile) => cmd'.force]_vars

\* C14: the finalize cid is compared with the local digest without regard
\* to the case of the hex digits: a mismatch is reported exactly when the
\* digest values differ.
C14_CaseInsensitiveCidCompare ==
    (cmd.name = "post:create" /\ loc.fin # NoDigest) =>
        ((msg.digests # {}) <=> (loc.fin.d # loc.sha.d))

\* C15: a 2xx response whose body is not JSON ends the call with a parse
\* failure that is none of AuthError, ServerError, NetworkError, and the
\* request is not retried.
C15_ParseFailureDistinct ==
    (http.last.k = "http" /\ Ok(http.last.status) /\ ~http.last.json) =>
        /\ pc # "fetching"
        /\ ret.kind = "err"
        /\ ret.err.cls \notin {"AuthError", "ServerError", "NetworkError"}

\* C16: after a session:issue for audience A that ended with exit code 0,
\* getSession(A) returns the session built from the issuance response.
C16_IssuedSessionStoredUnderAudience ==
    (cmd.name = "session:issue" /\ pc = "done" /\ exit = 0) =>
        LET s == getSession(sessionFile, cmd.aud) IN
        /\ s # <<>>
        /\ s[1].jwt = ret.body.jwt
        /\ s[1].expiry = SessionOf(ret.body).expiry

\* C17: post:create without a stored identity ends with exit code 3 and
\* leaves the content store unchanged, and no command ends with an exit
\* code outside {0, 2, 3, 4, 5}.
C17_MissingIdentityExitsAuth ==
    /\ [](exit \in {-1, 0, 2, 3, 4, 5})
    /\ [][(cmd'.name = "post:create(local)" /\ ~keyFile.exists) =>
             (exit' = 3 /\ cdv' = cdv)]_vars

\* C18: when the issuance request succeeded and storeSession threw a
\* FileSystemError, session:issue ends with that error's exit code, 2.
C18_StoreFailureExitsFileSystem ==
    (/\ cmd.name = "session:issue" /\ pc = "done" /\ ret.kind = "ok"
     /\ loc.storeErr.cls = "FileSystemError")
    => (exit = StoreCatchExit(loc.storeErr) /\ exit = 2)

\* C19: uploadInit, the PUT of the bytes and finalize are each attempted
\* again after a 429, a 503, a timeout or a connection failure while fewer
\* than retries + 1 attempts have been made.
C19_MediaStepsFollowRetryPolicy ==
    cmd.name = "post:create" =>
        /\ (/\ http.req.ep \in {"uploadInit", "finalize"}
            /\ RetryableOutcome(http.last) /\ http.sent <= http.retries)
           => pc = "fetching"
        /\ (loc.putStatus \in {429, 503, -1} /\ Sent("put") <= DefaultRetries)
           => pc = "put"

\* C20: every record request carries as author the DID of the current
\* session; none is sent with another DID or while no session is stored.
C20_AuthorDidFromSession ==
    \A i \in 1..Len(wire) :
        wire[i].ep = "record" =>
            \E s \in getCurrentSession(sessionFile) : wire[i].author = <<s.did>>

\* C21: a record request that embeds a media reference carries as cid the
\* SHA-256 digest computed over the file, and it comes after, in this order,
\* an uploadInit call that returned, the PUT of the bytes, and a finalize
\* call that returned and carried that digest as checksum.
C21_MediaRefIsLocalDigest ==
    \A i \in 1..Len(wire) :
        (wire[i].ep = "record" /\ wire[i].media # <<>>) =>
            /\ cmd.media # <<>>
            /\ wire[i].media = <<SHA256(cmd.media[1])>>
            /\ loc.putStatus # 0
            /\ loc.fin = SHA256(cmd.media[1])
            /\ \E a, b, c \in 1..(i - 1) :
                  /\ a < b /\ b < c
                  /\ wire[a].ep = "uploadInit"
                  /\ wire[b].ep = "put"
                  /\ wire[c].ep = "finalize" /\ wire[c].media = <<SHA256(cmd.media[1])>>
                  /\ \A j \in 1..(i - 1) :
                        /\ wire[j].ep = "uploadInit" => j < b
                        /\ wire[j].ep = "finalize" => (b < j /\ wire[j].media = wire[c].media)
                        /\ wire[j].ep = "put" => j = b

C21_Witness ==
    /\ cmd.name = "post:create"
    /\ pc = "done"
    /\ exit = 0
    /\ Sent("record") >= 1
    /\ wire[Len(wire)].media = <<loc.sha>>
    /\ Sent("uploadInit") >= 2

\* C22: the session file changes only when session:issue stores the session
\* of a successful request, and then exactly the entry of that session's
\* audience changes: the other entries keep their value and no entry
\* disappears.  session:nonce, whoami, getSession and a session:issue whose
\* request failed leave the file as it was.
C22_SessionFileFrame ==
    [][/\ sessionFile' # sessionFile =>
            /\ cmd.name = "session:issue" /\ pc = "returned" /\ ret.kind = "ok"
            /\ sessionFile'.kind = "object"
            /\ LET s == SessionOf(ret.body)
                   old == sessionFile.map
                   new == sessionFile'.map
               IN /\ DOMAIN new = DOMAIN old \cup {s.aud}
                  /\ new[s.aud] = s
                  /\ \A a \in DOMAIN old \ {s.aud} : new[a] = old[a]
       /\ \A a \in Auds :
             getSession(sessionFile, a) # <<>> => getSession(sessionFile', a) # <<>>
       /\ (cmd'.name \in {"session:nonce", "whoami"} \/ (pc = "returned" /\ ret.kind = "err"))
             => sessionFile' = sessionFile]_vars

C22_Witness ==
    /\ cmd.name = "session:issue"
    /\ pc = "done"
    /\ exit = 0
    /\ sessionFile.kind = "object"
    /\ DOMAIN sessionFile.map = Auds
    /\ ret.body.aud = "gateway"

\* C23: every post:list (local variant) lists exactly the stored records, in
\* order, each with valid = TRUE; and a successful post:create with text T
\* appends exactly one record, with text T and the stored identity's public
\* key, that verifies - so identity:create, post:create T, post:list on an
\* empty store lists exactly one record, with text T and valid = TRUE.
C23_CreatedPostsListValid ==
    /\ []((cmd.name = "post:list(local)" /\ pc = "done" /\ exit = 0) =>
            /\ Len(loc.annotated) = Len(cdv.posts)
            /\ \A i \in 1..Len(cdv.posts) :
                  loc.annotated[i].post = cdv.posts[i] /\ loc.annotated[i].valid = TRUE)
    /\ [][(cmd'.name = "post:create(local)" /\ exit' = 0) =>
            /\ cdv'.kind = "posts"
            /\ Len(cdv'.posts) = Len(loadPosts(cdv).posts) + 1
            /\ SubSeq(cdv'.posts, 1, Len(cdv'.posts) - 1) = loadPosts(cdv).posts
            /\ LET rec == cdv'.posts[Len(cdv'.posts)] IN
                  /\ rec.text = cmd'.text
                  /\ rec.publicKeyBase64 = loadKey(keyFile).key[1].publicKeyBase64
                  /\ verifyMessage(rec.text, rec.signatureBase64, rec.publicKeyBase64)]_vars

C23_Witness ==
    /\ cmd.name = "post:list(local)" /\ pc = "done" /\ exit = 0
    /\ Len(loc.annotated) = 1
    /\ loc.annotated[1].post.text = "a" /\ loc.annotated[1].valid
    /\ keyFile = saveKey(generateKeypair(1))

\* C24 (as claimed): loadPosts returns [] only when the content-store file
\* does not exist; a file that is not an array of post records raises a
\* format error, and post:create against it fails without overwriting it.
C24_EmptyOnlyWhenAbsent ==
    /\ []((loadPosts(cdv).ok /\ loadPosts(cdv).posts = <<>>) => cdv.kind = "absent")
    /\ [](cdv.kind \in {"malformed", "badEntry"} =>
            ~loadPosts(cdv).ok /\ loadPosts(cdv).err.path = CDV_PATH)
    /\ [][(cmd'.name = "post:create(local)" /\ cdv.kind \in {"malformed", "badEntry"}) =>
            (exit' # 0 /\ cdv' = cdv)]_vars

\* C24 (amended): loadPosts returns [] only when the content-store file does
\* not exist or holds the empty array; a file that is not an array of post
\* records raises a format error naming the file, and post:create against
\* it fails without overwriting it.
C24_EmptyNeverForMalformed ==
    /\ []((loadPosts(cdv).ok /\ loadPosts(cdv).posts = <<>>) =>
            (cdv.kind = "absent" \/ (cdv.kind = "posts" /\ cdv.posts = <<>>)))
    /\ [](cdv.kind \in {"malformed", "badEntry"} =>
            ~loadPosts(cdv).ok /\ loadPosts(cdv).err.path = CDV_PATH)
    /\ [][(cmd'.name = "post:create(local)" /\ cdv.kind \in {"malformed", "badEntry"}) =>
            (exit' # 0 /\ cdv' = cdv)]_vars

C24_Witness ==
    /\ cdv.kind = "malformed"
    /\ cmd.name = "post:create(local)" /\ pc = "done" /\ exit = UncaughtExit
    /\ loadKey(keyFile).key # <<>>

\* C25: the key file identity:create has just saved loads as exactly the
\* identity that was saved, and a legacy file {did, privateKeyBase64,
\* publicKeyBase64} loads as the same identity as the current-format file
\* holding the same values.
C25_LoadKeyInvertsBothEncodings ==
    /\ (cmd.name = "identity:create(local)" /\ pc = "done" /\ exit = 0) =>
          \E k \in Keys : /\ keyFile = saveKey(generateKeypair(k))
                          /\ loadKey(keyFile) = [ok |-> TRUE, key |-> <<generateKeypair(k)>>, err |-> NoLoadErr]
    /\ \A k \in Keys :
          keyFile = KeyFileOf("legacy", k) =>
             /\ loadKey(keyFile) = loadKey(KeyFileOf("current", k))
             /\ loadKey(keyFile) = [ok |-> TRUE, key |-> <<generateKeypair(k)>>, err |-> NoLoadErr]

C25_Witness ==
    /\ keyFile = KeyFileOf("legacy", 1)
    /\ cmd.name = "post:create(local)" /\ pc = "done" /\ exit = 0
    /\ cdv.posts[Len(cdv.posts)].publicKeyBase64 = PublicOf(1)

\* C26: loadKey returns null exactly when the key file does not exist; an
\* existing file that has neither the current nor the legacy shape makes it
\* throw an error naming the key path; what it returns for an existing file
\* is never null and never an identity lacking one of its three fields.
C26_LoadKeyNullOnlyWhenAbsent ==
    LET r == loadKey(keyFile)
        j == keyFile.json
        current == j.did # <<>> /\ j.secretKeyBase64 # <<>> /\ j.publicKeyBase64 # <<>>
        legacy == j.did # <<>> /\ j.privateKeyBase64 # <<>> /\ j.publicKeyBase64 # <<>>
    IN  /\ (r.ok /\ r.key = <<>>) <=> ~keyFile.exists
        /\ (keyFile.exists /\ ~current /\ ~legacy) => (~r.ok /\ r.err.path = KEY_PATH)
        /\ (keyFile.exists /\ r.ok) =>
              /\ r.key # <<>>
              /\ Undefined \notin {r.key[1].did, r.key[1].secretKeyBase64, r.key[1].publicKeyBase64}

C26_Witness ==
    /\ keyFile.exists /\ ~loadKey(keyFile).ok
    /\ keyFile.json.privateKeyBase64 # <<>>
    /\ cmd.name = "post:create(local)" /\ pc = "done" /\ exit = UncaughtExit

\* C27: every completed storeSession (session:issue) leaves the directory
\* with mode 0700 and session.json with mode 0600, and every completed
\* saveKey (identity:create) leaves the directory with mode 0700 and
\* key.json with mode 0600, whatever the modes were before.
C27_WritesLeaveOwnerOnlyModes ==
    [][/\ (cmd.name = "session:issue" /\ pc = "returned" /\ ret.kind = "ok" /\ exit' = 0) =>
             (perm'.dir = 700 /\ perm'.session = 600)
       /\ (CanStart /\ cmd'.name = "identity:create(local)" /\ exit' = 0) =>
             (perm'.dir = 700 /\ perm'.key = 600)]_vars

C30_FailureMessageCarriesCorrelationId ==
    (/\ cmd.name \in RemoteCmds
     /\ pc = "done" /\ exit # 0
     /\ ret.kind = "err" /\ ret.err.cid # <<>>) => msg.cid = ret.err.cid

\* a term that is the secret half of a keypair
IsSecretKey(t) == \E k \in Keys : t = SecretOf(k)

C31_ListVerifiesAgainstStoredIdentity ==
    (cmd.name = "post:list(local)" /\ pc = "done" /\ exit = 0) =>
        \A i \in 1..Len(loc.annotated) :
            loc.annotated[i].valid =>
                /\ loadKey(keyFile).ok /\ loadKey(keyFile).key # <<>>
                /\ verifyMessage(loc.annotated[i].post.text, loc.annotated[i].post.signatureBase64,
                                 loadKey(keyFile).key[1].publicKeyBase64)

C32_DefaultAtMostThreeAttempts ==
    http.retries = DefaultRetries => http.sent <= 3

\* C33 (as stated): the delay fetchJSON waited before attempt n (0-indexed)
\* is backoffMs * 2^n.
C33_DelayBeforeAttemptN ==
    (pc = "fetching" /\ http.attempt > 0) => http.delay = DefaultBackoffMs * (2 ^ http.attempt)

\* C33 (amended): no delay precedes attempt 0, and the delay waited before
\* attempt n > 0, after the failure of attempt n - 1, is backoffMs * 2^(n-1),
\* without jitter or cap, whatever outcome caused the retry.
C33_DelayAfterFailedAttempt ==
    /\ (pc = "fetching" /\ http.attempt = 0) => http.delay = 0
    /\ (pc = "fetching" /\ http.attempt > 0) =>
           http.delay = DefaultBackoffMs * (2 ^ (http.attempt - 1))

C33_Witness ==
    /\ pc = "fetching" /\ http.attempt = 3
    /\ http.delay = 4000
    /\ ~Is503(http.last)

\* C36: the local content store is append-only: a successful post:create
\* leaves the records the store held, unchanged and in their order, followed
\* by exactly one new record; a failed post:create leaves the store file as
\* it was; and no other command of the local flow writes the store.
C36_StoreAppendOnly ==
    [][/\ (cmd'.name = "post:create(local)" /\ exit' = 0) =>
              /\ cdv'.kind = "posts"
              /\ \E rec \in {PostRecord(t, generateKeypair(k)) : t \in Texts, k \in Keys} :
                    cdv'.posts = loadPosts(cdv).posts \o <<rec>>
       /\ (cmd'.name = "post:create(local)" /\ exit' # 0) => cdv' = cdv
       /\ cmd'.name # "post:create(local)" => cdv' = cdv]_vars

C36_Witness ==
    /\ cmd.name = "post:create(local)" /\ pc = "done" /\ exit = 0
    /\ Len(cdv.posts) = 2
    /\ cdv.posts[1].text = "b" /\ cdv.posts[2].text = "a"

\* C38: a command whose input validation fails ends with exit code 2 having
\* sent no HTTP request, entered no fetchJSON call, and written none of the
\* key, session and content-store files (nor changed their modes).
C38_ValidationPrecedesSideEffects ==
    /\ [](~cmd.valid => (pc = "done" /\ exit = 2 /\ wire = <<>> /\ nCalls = 0))
    /\ [][~cmd'.valid =>
            (keyFile' = keyFile /\ sessionFile' = sessionFile /\ cdv' = cdv /\ perm' = perm)]_vars

C38_Witness ==
    /\ cmd.name = "identity:create" /\ ~cmd.valid
    /\ pc = "done" /\ exit = 2
    /\ keyFile.exists /\ wire = <<>>

\* C39: when the registration request of identity:create fails, the key
\* file does not hold the identity whose registration was refused: the
\* keypair generated by the failed invocation is not left in key storage.
C39_FailedRegistrationLeavesKeyStorage ==
    (cmd.name = "identity:create(register)" /\ cmd.valid /\ pc = "done" /\ exit # 0) =>
        ~(keyFile.exists /\ keyFile.json.publicKeyBase64 = http.req.pk)

C37_EveryCallTerminates ==
    (pc = "fetching") ~> (pc = "returned")

\* C35: the store files are updated by read-modify-write without locking,
\* and the last writer wins: what a process writes is the content it read
\* earlier with its own change applied - its session under its audience, its
\* post at the end - whatever the file holds at the time of the write, so
\* an entry another process wrote in between is not in the file afterwards.
C35_LastWriterWins ==
    [][\A p \in Procs :
          (procs[p].pc = "read" /\ procs'[p].pc = "done") =>
              /\ procs'[p].ok
              /\ procs[p].op = "storeSession" =>
                    LET snap == procs[p].read[1]
                        mine == procs[p].session[1]
                        old  == IF snap.kind = "object" THEN snap.map ELSE EmptyMap
                    IN snap.kind \in {"absent", "object"} =>
                          /\ sessionFile'.kind = "object"
                          /\ DOMAIN sessionFile'.map = DOMAIN old \cup {mine.aud}
                          /\ sessionFile'.map[mine.aud] = mine
                          /\ \A a \in DOMAIN old \ {mine.aud} : sessionFile'.map[a] = old[a]
              /\ procs[p].op = "post:create" =>
                    /\ Len(cdv'.posts) = Len(procs[p].read[1].posts) + 1
                    /\ SubSeq(cdv'.posts, 1, Len(cdv'.posts) - 1) = procs[p].read[1].posts
                    /\ cdv'.posts[Len(cdv'.posts)].text = procs[p].text]_vars

C35_Witness ==
    /\ \A p \in Procs : procs[p].pc = "done" /\ procs[p].ok /\ procs[p].op = "storeSession"
    /\ procs[1].session[1].aud # procs[2].session[1].aud
    /\ sessionFile.kind = "object"
    /\ \E p \in Procs : procs[p].session[1].aud \notin DOMAIN sessionFile.map

====
